---- MODULE Spec2Model ----
(***************************************************************************)
(* Model of the query-processing pipeline of legal-ai-backend:             *)
(*   - LegalRAGSystem.process_query and its helpers    (src/app/rag.py)    *)
(*   - classify / canned_response                      (src/safety.py)     *)
(*   - handle_message of the legacy endpoint           (src/app.py)        *)
(*   - ChatRequest, lifespan and the /chat handler     (src/app/main.py)   *)
(*   - the /chat handler of the legacy endpoint        (src/app.py)        *)
(*   - get_rag_system, get_vector_store_manager                            *)
(*                         (src/app/rag.py, src/app/vectorstore.py)        *)
(* Text is modelled by TLA+ strings; Len, SubSeq and \o act on them        *)
(* character by character, as Python's len, slicing and + do.              *)
(***************************************************************************)
EXTENDS Integers, Sequences, FiniteSets, TLC

(***************************************************************************)
(* Bounds of the model.                                                    *)
(***************************************************************************)
\* a query is the concatenation of at most MaxFragments fragments
MaxFragments == 2
\* the retriever returns at most MaxDocs passages
MaxDocs == 2

\* the number of threads that call process_query on the shared instance
MaxThreads == 2

\* the number of calls of get_vector_store_manager and get_rag_system followed
MaxCalls == 4

(***************************************************************************)
(* Python string primitives.                                               *)
(***************************************************************************)
UPPERCASE == "ABCDEFGHIJKLMNOPQRSTUVWXYZ"
LOWERCASE == "abcdefghijklmnopqrstuvwxyz"
DIGITS == "0123456789"

\* c is a one-character string occurring in the string set
CharIn(c, set) == \E i \in 1..Len(set) : SubSeq(set, i, i) = c

\* str.lower() on one character (ASCII range)
LowerChar(c) ==
    IF CharIn(c, UPPERCASE)
    THEN LET i == CHOOSE j \in 1..Len(UPPERCASE) : SubSeq(UPPERCASE, j, j) = c
         IN  SubSeq(LOWERCASE, i, i)
    ELSE c

\* str.lower(): character by character, the string split in halves
RECURSIVE Lower(_)
Lower(s) ==
    IF Len(s) = 0 THEN ""
    ELSE IF Len(s) = 1 THEN LowerChar(s)
    ELSE LET half == Len(s) \div 2
         IN  Lower(SubSeq(s, 1, half)) \o Lower(SubSeq(s, half + 1, Len(s)))

\* s[:n]
Prefix(s, n) == SubSeq(s, 1, IF Len(s) < n THEN Len(s) ELSE n)

\* sub occurs in s starting at index i (1-based)
OccursAt(s, sub, i) ==
    /\ i >= 1
    /\ i + Len(sub) - 1 <= Len(s)
    /\ SubSeq(s, i, i + Len(sub) - 1) = sub

\* Python's  sub in s
Contains(s, sub) == \E i \in 1..(Len(s) - Len(sub) + 1) : OccursAt(s, sub, i)

\* number of (possibly overlapping) occurrences of sub in s
CountOccurrences(s, sub) ==
    Cardinality({i \in 1..(Len(s) - Len(sub) + 1) : OccursAt(s, sub, i)})

\* regular-expression class \w on one character (ASCII range)
IsWordChar(c) ==
    CharIn(c, LOWERCASE) \/ CharIn(c, UPPERCASE) \/ CharIn(c, DIGITS) \/ c = "_"

\* \w holds of the character at index i of s; FALSE outside the string
WordAt(s, i) == i >= 1 /\ i <= Len(s) /\ IsWordChar(SubSeq(s, i, i))

\* regular-expression assertion \b between index i and index i+1 of s
Boundary(s, i) == WordAt(s, i) # WordAt(s, i + 1)

\* the pattern \bword\b matches s with the word starting at index i
WordMatchAt(s, word, i) ==
    /\ OccursAt(s, word, i)
    /\ Boundary(s, i - 1)
    /\ Boundary(s, i + Len(word) - 1)

\* re.search(r"\bword\b", s)
SearchWord(s, word) == \E i \in 1..Len(s) : WordMatchAt(s, word, i)

\* re.search(r"\bfirst\b.*\b(a|b|..)\b", s):  . does not match a newline
SearchWordThenAny(s, first, alternatives) ==
    \E i \in 1..Len(s) : \E j \in 1..Len(s) : \E w \in alternatives :
        /\ WordMatchAt(s, first, i)
        /\ WordMatchAt(s, w, j)
        /\ j >= i + Len(first)
        /\ \A k \in (i + Len(first))..(j - 1) : SubSeq(s, k, k) # "\n"

(***************************************************************************)
(* src/safety.py                                                           *)
(***************************************************************************)
\* the patterns \bword\b of ILLEGAL
ILLEGAL == {"forge", "bribe", "blackmail", "extort", "threaten"}

\* the pattern \bfake\b.*\b(doc|document|evidence)\b of ILLEGAL
ILLEGAL_fake_targets == {"doc", "document", "evidence"}

\* the patterns \bword\b of EMERGENCY
EMERGENCY == {"violence", "assault", "rape", "stalking", "kill myself", "suicide"}

\* text or "": None and the empty string are the falsy arguments
OrEmpty(text) == IF Len(text) = 0 THEN "" ELSE text

\* faulty variant of classify: the illegal patterns tried first
classify_illegal_first(text) ==
    LET t == Lower(OrEmpty(text))
    IN  IF \/ \E p \in ILLEGAL : SearchWord(t, p)
           \/ SearchWordThenAny(t, "fake", ILLEGAL_fake_targets)
        THEN "illegal"
        ELSE IF \E p \in EMERGENCY : SearchWord(t, p) THEN "emergency"
             ELSE "ok"

classify(text) ==
    LET t == Lower(OrEmpty(text))
    IN  IF \E p \in EMERGENCY : SearchWord(t, p) THEN "emergency"
        ELSE IF \/ \E p \in ILLEGAL : SearchWord(t, p)
                \/ SearchWordThenAny(t, "fake", ILLEGAL_fake_targets)
             THEN "illegal"
             ELSE "ok"

\* the apostrophe of "can't" is U+2019 in the source, written ' here
canned_response(label) ==
    IF label = "illegal"
    THEN "I can't help with anything illegal or harmful.\n"
         \o "This is general information, not legal advice.\n"
         \o "If you explain what happened, I can suggest lawful options (reporting channels, evidence preservation, and next steps)."
    ELSE IF label = "emergency"
    THEN "If you are in immediate danger, contact emergency services now.\n"
         \o "In India you can call 112.\n"
         \o "This is general information, not legal advice."
    ELSE ""

(***************************************************************************)
(* src/app.py                                                              *)
(***************************************************************************)
FALLBACK_PROVIDER == "gemini"

SYSTEM_STYLE ==
    "You are a Legal Awareness Assistant for India.\n"
    \o "Rules:\n"
    \o "1) Always include: 'This is general information, not legal advice.'\n"
    \o "2) Use simple language and bullet-point steps.\n"
    \o "3) Do not help with illegal or harmful actions.\n"
    \o "4) If unsure, say so and suggest checking official sources or consulting a lawyer/legal aid.\n"

\* faulty variant of SafetyFirst: the emergency label left out of the tuple
SafetyFirst_illegal_only(label) == label = "illegal"

\* handle_message: the labels answered by the rules, without the model
SafetyFirst(label) == label \in {"illegal", "emergency"}

\* faulty variant of EnforceDisclaimer: the phrase is looked for in the reply
\* as written, without lower-casing it
EnforceDisclaimer_case_sensitive(reply) ==
    IF ~Contains(reply, "not legal advice")
    THEN "This is general information, not legal advice.\n\n" \o reply
    ELSE reply

\* handle_message: the hard-enforced disclaimer
EnforceDisclaimer(reply) ==
    IF ~Contains(Lower(reply), "not legal advice")
    THEN "This is general information, not legal advice.\n\n" \o reply
    ELSE reply

(***************************************************************************)
(* src/app/rag.py: constants                                               *)
(***************************************************************************)
LEGAL_DISCLAIMER ==
    "\n\n**Disclaimer:** This is general legal information, not legal advice."

SYSTEM_PROMPT_head ==
    "You are Lawglance, an advanced legal AI assistant designed to provide precise legal awareness and information.\n"
    \o "\n"
    \o "**Your Core Purpose:**\n"
    \o "- Provide legal awareness and democratize access to legal information\n"
    \o "- Help users understand their legal rights and obligations\n"
    \o "- Answer ONLY based on the provided context\n"
    \o "- Be helpful, accurate, and educational\n"
    \o "\n"
    \o "**Current Legal Knowledge Domains:**\n"
    \o "- Indian Constitution\n"
    \o "- Bharatiya Nyaya Sanhita, 2023 (BNS)\n"
    \o "- Bharatiya Nagarik Suraksha Sanhita, 2023 (BNSS)\n"
    \o "- Bharatiya Sakshya Adhiniyam, 2023 (BSA)\n"
    \o "- Consumer Protection Act, 2019\n"
    \o "- Motor Vehicles Act, 1988\n"
    \o "- Information Technology Act, 2000\n"
    \o "- The Sexual Harassment of Women at Workplace (Prevention, Prohibition and Redressal) Act, 2013\n"
    \o "- The Protection of Children from Sexual Offences Act, 2012\n"
    \o "\n"
    \o "**Strict Guidelines:**\n"
    \o "1. Answer ONLY from the provided context below\n"
    \o "2. If the context doesn't contain sufficient information, respond with:\n"
    \o "   \"I don't have enough verified information in my knowledge base to answer that precisely.\"\n"
    \o "3. NEVER make up legal section numbers or citations\n"
    \o "4. NEVER provide guidance on illegal activities\n"
    \o "5. Always cite specific legal provisions from the context when possible\n"
    \o "6. Keep responses clear, concise, and accurate\n"
    \o "7. Maintain a helpful and educational tone\n"
    \o "\n"
    \o "**Safety Protocol:**\n"
    \o "If a user asks for help with illegal activities (e.g., evading law, committing crimes), respond with:\n"
    \o "\"I cannot provide guidance on illegal activities. If you have questions about legal compliance or your rights, I'm happy to help with that instead.\"\n"
    \o "\n"
    \o "---\n"
    \o "\n"
    \o "**Retrieved Legal Context:**\n"

SYSTEM_PROMPT_mid ==
    "\n"
    \o "\n"
    \o "---\n"
    \o "\n"
    \o "**User Question:**\n"

SYSTEM_PROMPT_tail ==
    "\n"
    \o "\n"
    \o "**Your Response (include relevant citations from the context):**"

ILLEGAL_KEYWORDS ==
    {"evade", "avoid arrest", "hide crime", "commit fraud", "forge",
     "illegal drug", "smuggle", "bribe", "money laundering", "tax evasion",
     "hack", "break law", "get away with", "cover up crime"}

ILLEGAL_DECLINE ==
    "I cannot provide guidance on illegal activities. If you have questions about legal compliance or your rights, I'm happy to help with that instead."

(***************************************************************************)
(* src/app/rag.py: LegalRAGSystem helpers                                  *)
(*                                                                         *)
(* A Document is a record [page_content, metadata]; metadata is a record   *)
(* whose fields are the keys present in the Python dict.                   *)
(***************************************************************************)
\* dict.get(key, default)
Get(metadata, key, default) ==
    IF key \in DOMAIN metadata THEN metadata[key] ELSE default

\* faulty variant of _is_illegal_query: the query matched without lower-casing it
_is_illegal_query_case_sensitive(query) ==
    \E keyword \in ILLEGAL_KEYWORDS : Contains(query, keyword)

_is_illegal_query(query) ==
    LET query_lower == Lower(query)
    IN  \E keyword \in ILLEGAL_KEYWORDS : Contains(query_lower, keyword)

\* faulty variant of content_snippet: the text is not sliced before the
\* ellipsis is appended
content_snippet_unsliced(page_content) ==
    IF Len(page_content) > 200
    THEN page_content \o "..."
    ELSE page_content

\* faulty variant of content_snippet: the length compared with >= 200
content_snippet_at_200(page_content) ==
    IF Len(page_content) >= 200
    THEN SubSeq(page_content, 1, 200) \o "..."
    ELSE page_content

\* content_snippet of _extract_citations
content_snippet(page_content) ==
    IF Len(page_content) > 200
    THEN SubSeq(page_content, 1, 200) \o "..."
    ELSE page_content

\* source_id of _extract_citations
source_id(doc) ==
    Get(doc.metadata, "source", "Unknown Source") \o "_"
        \o Prefix(content_snippet(doc.page_content), 50)

\* the citation dictionary built by _extract_citations for one document
citation(doc) ==
    LET metadata == doc.metadata
        source == Get(metadata, "source", "Unknown Source")
        title == Get(metadata, "title", source)
        snippet == content_snippet(doc.page_content)
    IN  IF "section" \in DOMAIN metadata /\ "page" \in DOMAIN metadata
        THEN [source_title |-> title, source |-> source, snippet |-> snippet,
              section |-> metadata.section, page |-> ToString(metadata.page)]
        ELSE IF "section" \in DOMAIN metadata
        THEN [source_title |-> title, source |-> source, snippet |-> snippet,
              section |-> metadata.section]
        ELSE IF "page" \in DOMAIN metadata
        THEN [source_title |-> title, source |-> source, snippet |-> snippet,
              page |-> ToString(metadata.page)]
        ELSE [source_title |-> title, source |-> source, snippet |-> snippet]

\* the loop of _extract_citations, from document i on
RECURSIVE extract_citations_from(_, _, _, _)
extract_citations_from(documents, i, citations, seen_sources) ==
    IF i > Len(documents) THEN citations
    ELSE IF source_id(documents[i]) \notin seen_sources
         THEN extract_citations_from(documents, i + 1,
                  Append(citations, citation(documents[i])),
                  seen_sources \cup {source_id(documents[i])})
         ELSE extract_citations_from(documents, i + 1, citations, seen_sources)

_extract_citations(documents) == extract_citations_from(documents, 1, <<>>, {})

\* faulty variant of context_part: the passages are numbered from 0
context_part_from_zero(i, doc) ==
    "[Source " \o ToString(i - 1) \o ": "
        \o Get(doc.metadata, "source", "Unknown") \o "]\n"
        \o doc.page_content \o "\n"

\* one entry of context_parts in _retrieve_context
context_part(i, doc) ==
    "[Source " \o ToString(i) \o ": "
        \o Get(doc.metadata, "source", "Unknown") \o "]\n"
        \o doc.page_content \o "\n"

\* "\n---\n".join(context_parts), from part i on
RECURSIVE join_context_parts(_, _)
join_context_parts(documents, i) ==
    IF i > Len(documents) THEN ""
    ELSE IF i = Len(documents) THEN context_part(i, documents[i])
    ELSE context_part(i, documents[i]) \o "\n---\n"
             \o join_context_parts(documents, i + 1)

\* _retrieve_context, given what retriever.invoke(query) returned
_retrieve_context(documents) ==
    IF documents = <<>>
    THEN [context |-> "", documents |-> <<>>]
    ELSE [context |-> join_context_parts(documents, 1), documents |-> documents]

\* fallback_prompt of process_query
fallback_prompt(query) ==
    "You are a helpful legal AI assistant. Answer the following question to the best of your ability:\n"
    \o "\n"
    \o "Question: " \o query \o "\n"
    \o "\n"
    \o "Provide a clear and accurate answer."

\* self.prompt_template.format(context=context, question=query): the one
\* human message of the template, rendered as a string
grounded_prompt(context, query) ==
    "Human: " \o SYSTEM_PROMPT_head \o context \o SYSTEM_PROMPT_mid
        \o query \o SYSTEM_PROMPT_tail

\* faulty variant of no_context: the result compared with None, which an empty
\* string and an empty list are not
no_context_is_none(context, documents) == FALSE

\* the test  not context or not documents
no_context(context, documents) == context = "" \/ documents = <<>>

\* faulty variant of is_insufficient: the markers are looked for in the answer
\* as written, without lower-casing it
is_insufficient_case_sensitive(answer) ==
    \/ Contains(answer, "don't have enough")
    \/ Contains(answer, "insufficient information")

\* the quality check on the grounded answer
is_insufficient(answer) ==
    \/ Contains(Lower(answer), "don't have enough")
    \/ Contains(Lower(answer), "insufficient information")

(***************************************************************************)
(* src/llm_fallback_gemini.py                                              *)
(***************************************************************************)
WHITESPACE == " \n\t\r"

\* str.strip()
RECURSIVE Strip(_)
Strip(s) ==
    IF Len(s) = 0 THEN s
    ELSE IF CharIn(SubSeq(s, 1, 1), WHITESPACE) THEN Strip(SubSeq(s, 2, Len(s)))
    ELSE IF CharIn(SubSeq(s, Len(s), Len(s)), WHITESPACE)
         THEN Strip(SubSeq(s, 1, Len(s) - 1))
    ELSE s

\* the text that generate sends to the model
generate_text(system, user) == system \o "\n\nUser: " \o user

\* what generate returns when the model answered with text
generate_result(text) == Strip(text)

(***************************************************************************)
(* Inputs: the queries, the passages the vector store can return and the   *)
(* texts the model can produce.                                            *)
(***************************************************************************)
Fragments ==
    {"kill myself", "How can I evade taxes?", "Forge", "What is bail", " ", "d"}

RECURSIVE Concatenations(_)
Concatenations(n) ==
    IF n = 0 THEN {""}
    ELSE LET shorter == Concatenations(n - 1)
         IN  shorter \cup {s \o f : s \in shorter, f \in Fragments}

Queries == Concatenations(MaxFragments)

LongPassage ==
    "Whoever commits theft shall be punished with imprisonment of either description for a term which may extend to three years, "
    \o "or with fine, or with both, and in case of second or subsequent conviction of any person under this section, "
    \o "he shall be punished with rigorous imprisonment."

PassagePool ==
    {[page_content |-> "Part III of the Constitution deals with Fundamental Rights.",
      metadata |-> [source |-> "constitution.pdf", title |-> "Constitution of India",
                    section |-> "Article 12-35"]],
     [page_content |-> LongPassage,
      metadata |-> [source |-> "bns.pdf", page |-> 12]],
     [page_content |-> "", metadata |-> [title |-> "Untitled"]]}

DocumentLists == UNION {[1..n -> PassagePool] : n \in 0..MaxDocs}

\* the passages given to _extract_citations when it is called on its own
CitationPool ==
    PassagePool \cup
    {[page_content |-> "Part III of the Constitution deals with Fundamental Duties as well.",
      metadata |-> [source |-> "constitution.pdf", title |-> "Constitution (Part IV-A)"]],
     [page_content |-> "Part III of the Constitution deals with Fundamental Rights.",
      metadata |-> [source |-> "commentary.pdf", page |-> 3,
                    section |-> "Chapter 2"]],
     [page_content |-> SubSeq(LongPassage, 1, 200),
      metadata |-> [source |-> "bns_200.pdf"]],
     [page_content |-> SubSeq(LongPassage, 1, 201),
      metadata |-> [source |-> "bns_201.pdf"]],
     [page_content |-> "sec. 1", metadata |-> [source |-> "ipc_1860"]],
     [page_content |-> "1860_sec. 1", metadata |-> [source |-> "ipc"]]}

CitationInputs == UNION {[1..n -> CitationPool] : n \in 0..MaxDocs}

\* None, modelled by the empty tuple
None == <<>>

\* the strings given to classify when it is called on its own; None is
\* given as well
ClassifyInputs ==
    Queries \cup
    {"I want to kill myself and forge a will", "He sent a FAKE\ndocument",
     "a fake, signed document", "They threaten me", "Suicide", "rapeseed oil"}

LlmContents ==
    {"Article 21 protects life and personal liberty.",
     "I don't have enough verified information in my knowledge base to answer that precisely.",
     "There is INSUFFICIENT INFORMATION in the context.",
     "Bail is the release of an accused person." \o LEGAL_DISCLAIMER,
     ""}

GenerateTexts ==
    {"- Bail is the release of an accused person.\n",
     "This is general information, NOT LEGAL ADVICE.\n- Ask a lawyer.",
     " "}

\* the texts of the exceptions the external services raise
ExceptionMessages == {"Connection refused", "429 quota exceeded"}

\* s * n
RECURSIVE Repeat(_, _)
Repeat(s, n) ==
    IF n = 0 THEN ""
    ELSE LET half == Repeat(s, n \div 2)
         IN  IF n % 2 = 0 THEN half \o half ELSE half \o half \o s

\* the query fields posted to /chat: around the lower limit of 3 characters,
\* around the upper limit of 1000, with and without surrounding whitespace
RawQueries ==
    {"What is bail", "  What is bail \n", "How can I evade taxes?",
     "", "a", "ab", "abc", "  a", " ab ", "    ",
     Repeat("bail?", 200), Repeat("bail?", 200) \o "x",
     " " \o Repeat("bail?", 200)}

\* the requests posted to /chat of src/app.py: the content-type header, the
\* body, and the message that the request carries (<<>> when it has none)
AppChatRequest(header, body, message) ==
    [header |-> header, body |-> body, message |-> message]

AppChatRequests ==
    {AppChatRequest(<<"application/json">>, "{\"message\": \"What is bail\"}",
                    <<"What is bail">>),
     AppChatRequest(<<"Application/JSON; charset=utf-8">>,
                    "{\"user_id\": \"u1\", \"message\": \"Forge\"}", <<"Forge">>),
     AppChatRequest(<<"application/json">>, "{\"message\": \"   \"}", <<"   ">>),
     AppChatRequest(<<"application/json">>, "{\"message\": \"\"}", <<"">>),
     AppChatRequest(<<"application/json">>, "{\"message\": null}", <<>>),
     AppChatRequest(<<"application/json">>, "{\"user_id\": \"u1\"}", <<>>),
     AppChatRequest(<<"application/json">>, "{}", <<>>),
     AppChatRequest(<<"application/json">>, "{\"message\": ", <<>>),
     AppChatRequest(<<"text/plain">>, "What is bail", <<"What is bail">>),
     AppChatRequest(<<"text/plain">>, "  kill myself \n", <<"  kill myself \n">>),
     AppChatRequest(<<"text/plain">>, " \n\t ", <<" \n\t ">>),
     AppChatRequest(<<"text/plain">>, "", <<"">>),
     AppChatRequest(<<>>, "d", <<"d">>),
     AppChatRequest(<<>>, "", <<>>),
     AppChatRequest(<<"text/plain">>, " {\"message\": \"d\"} ", <<"d">>),
     AppChatRequest(<<"text/plain">>, "{\"message\": \" \"}", <<" ">>),
     AppChatRequest(<<"text/plain">>, "{\"user_id\": \"u1\"}", <<>>),
     AppChatRequest(<<"text/plain">>, "{not json}", <<"{not json}">>)}

(***************************************************************************)
(* State                                                                   *)
(***************************************************************************)
\* the function called: "none", "process_query", "handle_message",
\* "_extract_citations", "classify", "chat" (src/app/main.py) or "app.chat"
\* (src/app.py)
VARIABLE entry
\* its argument: the query of process_query, the message of handle_message
VARIABLE query
\* where the call stands: "idle", a pending external call, "returned", "raised"
VARIABLE pc
\* local variable context of process_query
VARIABLE context
\* local variable documents of process_query
VARIABLE documents
\* the external calls made so far, in order
VARIABLE calls
\* <<>> until the call returns, then <<the returned value>>
VARIABLE result
\* the pipeline states entered so far, in order
VARIABLE path
\* <<>> until retriever.invoke returns, then <<the documents it returned>>
VARIABLE retrieved
\* <<>> until an external call raises, then <<[service, after]>>: the service
\* that raised and the number of calls made up to then
VARIABLE failure

\* the contents the model returned so far, in order: of llm.invoke for
\* process_query, of fallback_generate for handle_message
VARIABLE responses
\* the module global rag_system of src/app/main.py: "None" until lifespan
\* has built the LegalRAGSystem
VARIABLE rag_system
\* the query field of the body posted to /chat, as received
VARIABLE request
\* <<>> until /chat has answered, then <<the HTTP response>>
VARIABLE http

\* concurrent calls of process_query on one LegalRAGSystem: for each thread
\* the frame of its call, that is its parameter query and the local
\* variables of process_query
VARIABLE threads
\* for each thread what it was given: the query of its call and, in order,
\* what its own external calls returned or raised
VARIABLE given
\* the attributes of the LegalRAGSystem that the threads share
VARIABLE instance

\* the module global _vector_store_manager of src/app/vectorstore.py: <<>>
\* for None, else <<the VectorStoreManager>>
VARIABLE _vector_store_manager
\* the module global _rag_system of src/app/rag.py: <<>> for None, else
\* <<the LegalRAGSystem>>
VARIABLE _rag_system
\* the number of objects of each class that the two functions have constructed
VARIABLE constructed
\* the calls of the two functions so far, in order: the function, its argument
\* and what it returned (<<>> when it raised)
VARIABLE got

sequential == <<entry, query, pc, context, documents, calls, result, path,
                retrieved, failure, responses, rag_system, request, http>>

concurrent == <<threads, given, instance>>

singletons == <<_vector_store_manager, _rag_system, constructed, got>>

vars == <<entry, query, pc, context, documents, calls, result, path,
          retrieved, failure, responses, rag_system, request, http,
          threads, given, instance,
          _vector_store_manager, _rag_system, constructed, got>>

RetrieverCall(q) == [service |-> "retriever", input |-> q]
LlmCall(prompt) == [service |-> "llm", input |-> prompt]
GenerateCall(system, user) ==
    [service |-> "generate", input |-> generate_text(system, user)]

\* the local state of a call
Local(p, ctx, docs, cs, res, pth) ==
    [pc |-> p, context |-> ctx, documents |-> docs, calls |-> cs,
     result |-> res, path |-> pth]

Assign(l) ==
    /\ pc' = l.pc
    /\ context' = l.context
    /\ documents' = l.documents
    /\ calls' = l.calls
    /\ result' = l.result
    /\ path' = l.path

(***************************************************************************)
(* src/app/rag.py: LegalRAGSystem.process_query, one step per stretch of   *)
(* code between two external calls                                         *)
(***************************************************************************)
blocked_result ==
    [answer |-> ILLEGAL_DECLINE \o LEGAL_DISCLAIMER,
     citations |-> <<>>,
     has_context |-> FALSE]

no_context_result(content) ==
    [answer |-> content \o LEGAL_DISCLAIMER,
     citations |-> <<>>,
     has_context |-> FALSE]

\* the dictionary returned at the end of process_query; its citations are
\* the literal [] of the return statement, whatever documents holds
final_result(answer, docs) ==
    [answer |-> answer \o LEGAL_DISCLAIMER,
     citations |-> <<>>,
     has_context |-> TRUE]

\* from the call to the safety return or to retriever.invoke(query)
process_query_begin(q) ==
    IF _is_illegal_query(q)
    THEN Local("returned", "", <<>>, <<>>, <<blocked_result>>, <<"SAFETY_BLOCKED">>)
    ELSE Local("retrieve", "", <<>>, <<RetrieverCall(q)>>, <<>>, <<>>)

\* retriever.invoke returned: up to the first self.llm.invoke
process_query_retrieved(q, invoked, cs) ==
    LET r == _retrieve_context(invoked)
    IN  IF no_context(r.context, r.documents)
        THEN Local("llm_no_context", r.context, r.documents,
                   Append(cs, LlmCall(fallback_prompt(q))), <<>>, <<"NO_CONTEXT">>)
        ELSE Local("llm_grounded", r.context, r.documents,
                   Append(cs, LlmCall(grounded_prompt(r.context, q))), <<>>,
                   <<"GROUNDED_ATTEMPT">>)

\* faulty variant of process_query_retrieve_failed: the except clause of
\* _retrieve_context returns "", [] instead of re-raising
process_query_retrieve_failed_swallowed(q, cs) ==
    process_query_retrieved(q, <<>>, cs)

\* retriever.invoke raised: both except clauses log and re-raise
process_query_retrieve_failed(q, cs) ==
    Local("raised", "", <<>>, cs, <<>>, <<>>)

\* the llm call of the no-context branch returned
process_query_no_context_answer(content, ctx, docs, cs, pth) ==
    Local("returned", ctx, docs, cs, <<no_context_result(content)>>,
          Append(pth, "DONE"))

\* the grounded llm call returned: quality check, then retry or return
process_query_grounded_answer(q, content, ctx, docs, cs, pth) ==
    IF is_insufficient(content)
    THEN Local("llm_retry", ctx, docs, Append(cs, LlmCall(fallback_prompt(q))),
               <<>>, Append(pth, "INSUFFICIENT_RETRY"))
    ELSE Local("returned", ctx, docs, cs, <<final_result(content, docs)>>,
               Append(pth, "DONE"))

\* faulty variant of process_query_retry_answer: the retry returns the dictionary
\* of the no-context branch
process_query_retry_answer_no_context(q, content, ctx, docs, cs, pth) ==
    Local("returned", ctx, docs, cs, <<no_context_result(content)>>,
          Append(pth, "DONE"))

\* faulty variant of process_query_retry_answer: the quality check loops, so the
\* retry output is checked again and retried again
process_query_retry_answer_rechecked(q, content, ctx, docs, cs, pth) ==
    IF is_insufficient(content)
    THEN Local("llm_retry", ctx, docs, Append(cs, LlmCall(fallback_prompt(q))),
               <<>>, Append(pth, "INSUFFICIENT_RETRY"))
    ELSE Local("returned", ctx, docs, cs, <<final_result(content, docs)>>,
               Append(pth, "DONE"))

\* the retry llm call returned
process_query_retry_answer(q, content, ctx, docs, cs, pth) ==
    Local("returned", ctx, docs, cs, <<final_result(content, docs)>>,
          Append(pth, "DONE"))

\* faulty variant of process_query_llm_failed: a failed grounded call is handled
\* like an insufficient answer and falls back to the generic prompt
process_query_llm_failed_falls_back(p, q, ctx, docs, cs, pth) ==
    IF p = "llm_grounded"
    THEN Local("llm_retry", ctx, docs, Append(cs, LlmCall(fallback_prompt(q))),
               <<>>, Append(pth, "INSUFFICIENT_RETRY"))
    ELSE Local("raised", ctx, docs, cs, <<>>, pth)

\* self.llm.invoke raised at stage p: the except clause logs and re-raises
process_query_llm_failed(p, q, ctx, docs, cs, pth) ==
    Local("raised", ctx, docs, cs, <<>>, pth)

(***************************************************************************)
(* src/app.py: handle_message                                              *)
(***************************************************************************)
ChatRes(reply, safety, provider) ==
    [reply |-> reply, safety |-> safety, provider |-> provider]

\* from the call to the canned return or to fallback_generate
handle_message_begin(message) ==
    LET label == classify(message)
    IN  IF SafetyFirst(label)
        THEN Local("returned", "", <<>>, <<>>,
                   <<ChatRes(canned_response(label), label, "rules")>>, <<>>)
        ELSE Local("generate", "", <<>>, <<GenerateCall(SYSTEM_STYLE, message)>>,
                   <<>>, <<>>)

\* fallback_generate returned text
handle_message_generated(text, cs) ==
    Local("returned", "", <<>>, cs,
          <<ChatRes(EnforceDisclaimer(text), "ok", FALLBACK_PROVIDER)>>, <<>>)

\* fallback_generate raised: handle_message has no handler
handle_message_generate_failed(cs) ==
    Local("raised", "", <<>>, cs, <<>>, <<>>)

(***************************************************************************)
(* src/app/rag.py: process_query called by several threads on one          *)
(* LegalRAGSystem. A thread runs the steps of process_query above on the   *)
(* frame of its own call; the steps of different threads interleave at the *)
(* external calls.                                                         *)
(***************************************************************************)
Threads == 1..MaxThreads

\* the queries of the concurrent calls
ConcurrentQueries == {"What is bail", "How can I evade taxes?", "d"}

\* what retriever.invoke returns to a concurrent call
ConcurrentDocumentLists ==
    {<<>>,
     <<[page_content |-> "", metadata |-> [title |-> "Untitled"]],
       [page_content |-> "Part III of the Constitution deals with Fundamental Rights.",
        metadata |-> [source |-> "constitution.pdf"]]>>}

\* what llm.invoke returns to a concurrent call
ConcurrentLlmContents ==
    {"Article 21 protects life and personal liberty.",
     "There is INSUFFICIENT INFORMATION in the context."}

\* the attributes set by LegalRAGSystem.__init__
LegalRAGSystem ==
    [vector_store_manager |-> "VectorStoreManager",
     llm_model |-> "models/gemini-2.5-flash",
     temperature |-> "0.3",
     llm |-> "ChatGoogleGenerativeAI",
     prompt_template |-> "ChatPromptTemplate"]

\* the frame of a call of process_query(q) whose local state is l
FrameOf(q, l) ==
    [query |-> q, pc |-> l.pc, context |-> l.context,
     documents |-> l.documents, calls |-> l.calls, result |-> l.result,
     path |-> l.path]

\* the frame of a thread that has not called yet
idle_frame == FrameOf("", Local("idle", "", <<>>, <<>>, <<>>, <<>>))

\* what an external call hands back to its caller
DocumentsItem(docs) == [kind |-> "documents", documents |-> docs, content |-> ""]
ContentItem(content) == [kind |-> "content", documents |-> <<>>, content |-> content]
RaiseItem == [kind |-> "raise", documents |-> <<>>, content |-> ""]

\* faulty variant of Frame: the variables of process_query are kept in one
\* place, shared by all the calls
Frame_shared(frames, t) == frames[1]

\* the parameter and local variables that the call of thread t works on
Frame(frames, t) == frames[t]

\* the step of process_query that follows when the pending external call of
\* the frame f hands back item
Deliver(f, item) ==
    FrameOf(f.query,
        CASE f.pc = "retrieve" /\ item.kind = "documents" ->
                 process_query_retrieved(f.query, item.documents, f.calls)
          [] f.pc = "retrieve" /\ item.kind = "raise" ->
                 process_query_retrieve_failed(f.query, f.calls)
          [] f.pc = "llm_no_context" /\ item.kind = "content" ->
                 process_query_no_context_answer(item.content, f.context,
                                                 f.documents, f.calls, f.path)
          [] f.pc = "llm_grounded" /\ item.kind = "content" ->
                 process_query_grounded_answer(f.query, item.content, f.context,
                                               f.documents, f.calls, f.path)
          [] f.pc = "llm_retry" /\ item.kind = "content" ->
                 process_query_retry_answer(f.query, item.content, f.context,
                                            f.documents, f.calls, f.path)
          [] f.pc \in {"llm_no_context", "llm_grounded", "llm_retry"}
                 /\ item.kind = "raise" ->
                 process_query_llm_failed(f.pc, f.query, f.context, f.documents,
                                          f.calls, f.path)
          [] OTHER ->
                 Local(f.pc, f.context, f.documents, f.calls, f.result, f.path))

(***************************************************************************)
(* src/app/main.py: ChatRequest and the /chat handler                      *)
(***************************************************************************)
\* ChatRequest.validate_query, run on a string that passed the Field checks
validate_query(v) ==
    LET stripped == Strip(v)
    IN  IF Len(stripped) = 0 THEN [valid |-> FALSE, query |-> ""]
        ELSE [valid |-> TRUE, query |-> stripped]

\* ChatRequest(query=raw): the Field constraints min_length and max_length
\* are checked on the string as received, then validate_query runs
ChatRequest(raw) ==
    IF Len(raw) < 3 \/ Len(raw) > 1000 THEN [valid |-> FALSE, query |-> ""]
    ELSE validate_query(raw)

\* the response to a body that ChatRequest rejects
validation_error == [status |-> 422, detail |-> "Unprocessable Entity"]

\* chat when rag_system is not set
not_ready ==
    [status |-> 503,
     detail |-> "Service is not ready. Please try again in a moment."]

\* chat after process_query returned res
chat_response(res) ==
    [status |-> 200,
     body |-> [answer |-> res.answer, citations |-> res.citations,
               has_context |-> res.has_context]]

\* faulty variant of chat_error: the detail carries the text of the exception
chat_error_with_exception_text(message) ==
    [status |-> 500,
     detail |-> "An error occurred while processing your query: " \o message]

\* chat after process_query raised an exception whose text is message
chat_error(message) ==
    [status |-> 500,
     detail |-> "An error occurred while processing your query. Please try again."]

\* what chat has answered once the step of process_query that it awaits
\* left the call in l
chat_after(e, l, message, answered) ==
    IF e = "chat" /\ l.pc = "returned" THEN <<chat_response(l.result[1])>>
    ELSE IF e = "chat" /\ l.pc = "raised" THEN <<chat_error(message)>>
    ELSE answered

\* a step of the call e that leaves it in l
Complete(e, l, message) ==
    /\ Assign(l)
    /\ http' = chat_after(e, l, message, http)

(***************************************************************************)
(* src/app.py: the /chat handler of the legacy endpoint                    *)
(*                                                                         *)
(* An optional value (a header, a field of the payload) is <<>> for None   *)
(* and <<v>> for the value v. json.loads and request.json are modelled on  *)
(* objects whose members are strings or null; any other text is invalid.   *)
(***************************************************************************)
\* the character of s at position i, "" past the end
CharAt(s, i) == IF i >= 1 /\ i <= Len(s) THEN SubSeq(s, i, i) ELSE ""

\* the position of the first character at or after i that is not whitespace
RECURSIVE SkipWhitespace(_, _)
SkipWhitespace(s, i) ==
    IF i <= Len(s) /\ CharIn(SubSeq(s, i, i), WHITESPACE)
    THEN SkipWhitespace(s, i + 1)
    ELSE i

\* the position of the first double quote at or after i, 0 when there is none
RECURSIVE FindQuote(_, _)
FindQuote(s, i) ==
    IF i > Len(s) THEN 0
    ELSE IF SubSeq(s, i, i) = "\"" THEN i
    ELSE FindQuote(s, i + 1)

JsonInvalid == [ok |-> FALSE, value |-> <<>>, next |-> 0]

\* a JSON string that starts at position i
ParseString(s, i) ==
    IF CharAt(s, i) # "\"" THEN JsonInvalid
    ELSE LET close == FindQuote(s, i + 1)
         IN  IF close = 0 THEN JsonInvalid
             ELSE [ok |-> TRUE, value |-> <<SubSeq(s, i + 1, close - 1)>>,
                   next |-> close + 1]

\* a JSON value that starts at position i: a string or null
ParseValue(s, i) ==
    IF CharAt(s, i) = "\"" THEN ParseString(s, i)
    ELSE IF i + 3 <= Len(s) /\ SubSeq(s, i, i + 3) = "null"
         THEN [ok |-> TRUE, value |-> <<>>, next |-> i + 4]
    ELSE JsonInvalid

\* the members of a JSON object from position i on, after the members acc;
\* a member is <<key, value>>
RECURSIVE ParseMembers(_, _, _)
ParseMembers(s, i, acc) ==
    LET key == ParseString(s, SkipWhitespace(s, i))
    IN  IF ~key.ok THEN JsonInvalid
        ELSE LET colon == SkipWhitespace(s, key.next)
             IN  IF CharAt(s, colon) # ":" THEN JsonInvalid
                 ELSE LET val == ParseValue(s, SkipWhitespace(s, colon + 1))
                      IN  IF ~val.ok THEN JsonInvalid
                          ELSE LET after == SkipWhitespace(s, val.next)
                                   members == Append(acc, <<key.value[1], val.value>>)
                               IN  IF CharAt(s, after) = ","
                                   THEN ParseMembers(s, after + 1, members)
                                   ELSE IF CharAt(s, after) = "}"
                                   THEN [ok |-> TRUE, value |-> members,
                                         next |-> after + 1]
                                   ELSE JsonInvalid

\* json.loads(s): [ok, value] with the members of the object
json_loads(s) ==
    LET open == SkipWhitespace(s, 1)
        first == SkipWhitespace(s, open + 1)
        parsed == IF CharAt(s, open) # "{" THEN JsonInvalid
                  ELSE IF CharAt(s, first) = "}"
                  THEN [ok |-> TRUE, value |-> <<>>, next |-> first + 1]
                  ELSE ParseMembers(s, first, <<>>)
    IN  IF parsed.ok /\ SkipWhitespace(s, parsed.next) = Len(s) + 1
        THEN [ok |-> TRUE, value |-> parsed.value]
        ELSE [ok |-> FALSE, value |-> <<>>]

\* payload.get(key): the value of the last member with that key, else None
RECURSIVE payload_get(_, _)
payload_get(payload, key) ==
    IF payload = <<>> THEN <<>>
    ELSE IF payload[Len(payload)][1] = key THEN payload[Len(payload)][2]
    ELSE payload_get(SubSeq(payload, 1, Len(payload) - 1), key)

\* content_type of chat: (request.headers.get("content-type") or "").lower()
content_type_of(header) == IF header = <<>> THEN "" ELSE Lower(header[1])

\* raw.startswith("{") and raw.endswith("}")
LooksLikeJson(raw) == CharAt(raw, 1) = "{" /\ CharAt(raw, Len(raw)) = "}"

\* chat up to the test of message: [invalid_json, message]
chat_message(header, body) ==
    IF Contains(content_type_of(header), "application/json")
    THEN LET payload == json_loads(body)
         IN  IF ~payload.ok THEN [invalid_json |-> TRUE, message |-> <<>>]
             ELSE [invalid_json |-> FALSE,
                   message |-> payload_get(payload.value, "message")]
    ELSE LET raw == Strip(body)
         IN  IF LooksLikeJson(raw) /\ json_loads(raw).ok
             THEN [invalid_json |-> FALSE,
                   message |-> payload_get(json_loads(raw).value, "message")]
             ELSE [invalid_json |-> FALSE, message |-> <<raw>>]

\* not message
not_message(message) == message = <<>> \/ Len(message[1]) = 0

invalid_json_response ==
    [status |-> 400, error |-> "Invalid JSON. Send {'message': '...'}."]

empty_message_response ==
    [status |-> 400,
     error |-> "Empty message. Send JSON {'message': '...'} or plain text body."]

\* what the legacy chat has answered once handle_message is in l
app_chat_after(e, l, answered) ==
    IF e = "app.chat" /\ l.pc = "returned"
    THEN <<[status |-> 200, body |-> l.result[1]]>>
    ELSE IF e = "app.chat" /\ l.pc = "raised"
    THEN <<[status |-> 500, error |-> "Internal Server Error"]>>
    ELSE answered

(***************************************************************************)
(* src/app/vectorstore.py: get_vector_store_manager                        *)
(* src/app/rag.py: get_rag_system                                          *)
(*                                                                         *)
(* An object is a record with its class and an id that tells two objects   *)
(* of the class apart. Each function is given the value of its global, the *)
(* number of objects constructed so far and whether the constructor it may *)
(* call succeeds; it gives the new value of the global, the new number and *)
(* what the call returned (<<>> when the constructor raised).              *)
(***************************************************************************)
VectorStoreManagerObject(n) == [class |-> "VectorStoreManager", id |-> n]

LegalRAGSystemObject(n, manager) ==
    [class |-> "LegalRAGSystem", id |-> n, vector_store_manager |-> manager]

\* managers that a caller has constructed itself
OwnManagers == {VectorStoreManagerObject(100), VectorStoreManagerObject(200)}

get_vector_store_manager(global, n, constructor_ok) ==
    IF global = <<>>
    THEN IF constructor_ok
         THEN [global |-> <<VectorStoreManagerObject(n + 1)>>, constructed |-> n + 1,
               outcome |-> <<VectorStoreManagerObject(n + 1)>>]
         ELSE [global |-> <<>>, constructed |-> n, outcome |-> <<>>]
    ELSE [global |-> global, constructed |-> n, outcome |-> global]

\* faulty variant of get_rag_system: an instance bound to another manager than
\* the argument is replaced by a new one
get_rag_system_rebinds(global, vector_store_manager, n, constructor_ok) ==
    IF global = <<>> \/ global[1].vector_store_manager # vector_store_manager
    THEN IF constructor_ok
         THEN [global |-> <<LegalRAGSystemObject(n + 1, vector_store_manager)>>,
               constructed |-> n + 1,
               outcome |-> <<LegalRAGSystemObject(n + 1, vector_store_manager)>>]
         ELSE [global |-> global, constructed |-> n, outcome |-> <<>>]
    ELSE [global |-> global, constructed |-> n, outcome |-> global]

get_rag_system(global, vector_store_manager, n, constructor_ok) ==
    IF global = <<>>
    THEN IF constructor_ok
         THEN [global |-> <<LegalRAGSystemObject(n + 1, vector_store_manager)>>,
               constructed |-> n + 1,
               outcome |-> <<LegalRAGSystemObject(n + 1, vector_store_manager)>>]
         ELSE [global |-> <<>>, constructed |-> n, outcome |-> <<>>]
    ELSE [global |-> global, constructed |-> n, outcome |-> global]

\* one call in the log of calls
Got(function, argument, outcome) ==
    [function |-> function, argument |-> argument, outcome |-> outcome]

(***************************************************************************)
(* Actions                                                                 *)
(***************************************************************************)
Init ==
    /\ entry = "none"
    /\ query = ""
    /\ pc = "idle"
    /\ context = ""
    /\ documents = <<>>
    /\ calls = <<>>
    /\ result = <<>>
    /\ path = <<>>
    /\ retrieved = <<>>
    /\ failure = <<>>
    /\ responses = <<>>
    /\ rag_system = "None"
    /\ request = ""
    /\ http = <<>>
    /\ threads = [t \in Threads |-> idle_frame]
    /\ given = [t \in Threads |-> [query |-> "", received |-> <<>>]]
    /\ instance = LegalRAGSystem
    /\ _vector_store_manager = <<>>
    /\ _rag_system = <<>>
    /\ constructed = [VectorStoreManager |-> 0, LegalRAGSystem |-> 0]
    /\ got = <<>>

\* lifespan of src/app/main.py up to its yield: the two globals of main.py
\* are set from get_vector_store_manager() and get_rag_system(...); when
\* either raises, lifespan raises and the application does not start
Startup ==
    \E manager_ok \in BOOLEAN, system_ok \in BOOLEAN :
        /\ pc = "idle"
        /\ rag_system = "None"
        /\ entry = "none"
        /\ Len(got) + 2 <= MaxCalls
        /\ LET first == get_vector_store_manager(_vector_store_manager,
                                                 constructed.VectorStoreManager,
                                                 manager_ok)
           IN  IF first.outcome = <<>>
               THEN /\ _vector_store_manager' = first.global
                    /\ got' = Append(got, Got("get_vector_store_manager", <<>>,
                                              first.outcome))
                    /\ constructed' = [constructed EXCEPT
                                          !.VectorStoreManager = first.constructed]
                    /\ entry' = "lifespan"
                    /\ pc' = "raised"
                    /\ UNCHANGED <<rag_system, _rag_system>>
               ELSE LET second == get_rag_system(_rag_system, first.outcome[1],
                                                 constructed.LegalRAGSystem,
                                                 system_ok)
                    IN  /\ _vector_store_manager' = first.global
                        /\ _rag_system' = second.global
                        /\ got' = got \o
                              <<Got("get_vector_store_manager", <<>>, first.outcome),
                                Got("get_rag_system", first.outcome, second.outcome)>>
                        /\ constructed' =
                              [VectorStoreManager |-> first.constructed,
                               LegalRAGSystem |-> second.constructed]
                        /\ IF second.outcome = <<>>
                           THEN /\ entry' = "lifespan"
                                /\ pc' = "raised"
                                /\ UNCHANGED rag_system
                           ELSE /\ rag_system' = "LegalRAGSystem"
                                /\ UNCHANGED <<entry, pc>>
        /\ UNCHANGED <<query, context, documents, calls, result, path,
                       retrieved, failure, responses, request, http>>
        /\ UNCHANGED concurrent

\* POST /chat
CallChat ==
    \E raw \in RawQueries :
        /\ pc = "idle"
        /\ entry' = "chat"
        /\ request' = raw
        /\ LET parsed == ChatRequest(raw)
           IN  IF ~parsed.valid
               THEN /\ query' = ""
                    /\ Assign(Local("responded", "", <<>>, <<>>, <<>>, <<>>))
                    /\ http' = <<validation_error>>
               ELSE IF rag_system = "None"
               THEN /\ query' = parsed.query
                    /\ Assign(Local("responded", "", <<>>, <<>>, <<>>, <<>>))
                    /\ http' = <<not_ready>>
               ELSE /\ query' = parsed.query
                    /\ Complete("chat", process_query_begin(parsed.query), "")
        /\ UNCHANGED <<retrieved, failure, responses, rag_system>>
        /\ UNCHANGED concurrent
        /\ UNCHANGED singletons

\* process_query called on a LegalRAGSystem of the caller's own
CallProcessQuery ==
    \E q \in Queries :
        /\ pc = "idle"
        /\ rag_system = "None"
        /\ entry' = "process_query"
        /\ query' = q
        /\ Complete("process_query", process_query_begin(q), "")
        /\ UNCHANGED <<retrieved, failure, responses, rag_system, request>>
        /\ UNCHANGED concurrent
        /\ UNCHANGED singletons

RetrieverReturns ==
    \E invoked \in DocumentLists :
        /\ pc = "retrieve"
        /\ Complete(entry, process_query_retrieved(query, invoked, calls), "")
        /\ retrieved' = <<invoked>>
        /\ UNCHANGED <<entry, query, failure, responses, rag_system, request>>
        /\ UNCHANGED concurrent
        /\ UNCHANGED singletons

RetrieverRaises ==
    \E message \in ExceptionMessages :
        /\ pc = "retrieve"
        /\ Complete(entry, process_query_retrieve_failed(query, calls), message)
        /\ failure' = <<[service |-> "retriever", after |-> Len(calls),
                         message |-> message]>>
        /\ UNCHANGED <<entry, query, retrieved, responses, rag_system, request>>
        /\ UNCHANGED concurrent
        /\ UNCHANGED singletons

LlmReturnsNoContext ==
    \E content \in LlmContents :
        /\ pc = "llm_no_context"
        /\ Complete(entry, process_query_no_context_answer(content, context,
                                                  documents, calls, path), "")
        /\ responses' = Append(responses, content)
        /\ UNCHANGED <<entry, query, retrieved, failure, rag_system, request>>
        /\ UNCHANGED concurrent
        /\ UNCHANGED singletons

LlmReturnsGrounded ==
    \E content \in LlmContents :
        /\ pc = "llm_grounded"
        /\ Complete(entry, process_query_grounded_answer(query, content, context,
                                                documents, calls, path), "")
        /\ responses' = Append(responses, content)
        /\ UNCHANGED <<entry, query, retrieved, failure, rag_system, request>>
        /\ UNCHANGED concurrent
        /\ UNCHANGED singletons

LlmReturnsRetry ==
    \E content \in LlmContents :
        /\ pc = "llm_retry"
        /\ Complete(entry, process_query_retry_answer(query, content, context,
                                             documents, calls, path), "")
        /\ responses' = Append(responses, content)
        /\ UNCHANGED <<entry, query, retrieved, failure, rag_system, request>>
        /\ UNCHANGED concurrent
        /\ UNCHANGED singletons

LlmRaises ==
    \E message \in ExceptionMessages :
        /\ pc \in {"llm_no_context", "llm_grounded", "llm_retry"}
        /\ Complete(entry, process_query_llm_failed(pc, query, context,
                                           documents, calls, path), message)
        /\ failure' = <<[service |-> "llm", after |-> Len(calls),
                         message |-> message]>>
        /\ UNCHANGED <<entry, query, retrieved, responses, rag_system, request>>
        /\ UNCHANGED concurrent
        /\ UNCHANGED singletons

\* POST /chat of src/app.py
CallAppChat ==
    \E r \in AppChatRequests :
        /\ pc = "idle"
        /\ rag_system = "None"
        /\ entry' = "app.chat"
        /\ request' = r
        /\ LET read == chat_message(r.header, r.body)
           IN  IF read.invalid_json
               THEN /\ query' = ""
                    /\ Assign(Local("responded", "", <<>>, <<>>, <<>>, <<>>))
                    /\ http' = <<invalid_json_response>>
               ELSE IF not_message(read.message)
               THEN /\ query' = ""
                    /\ Assign(Local("responded", "", <<>>, <<>>, <<>>, <<>>))
                    /\ http' = <<empty_message_response>>
               ELSE /\ query' = read.message[1]
                    /\ Assign(handle_message_begin(read.message[1]))
                    /\ http' = app_chat_after("app.chat",
                                   handle_message_begin(read.message[1]), http)
        /\ UNCHANGED <<retrieved, failure, responses, rag_system>>
        /\ UNCHANGED concurrent
        /\ UNCHANGED singletons

\* handle_message of src/app.py called
CallHandleMessage ==
    \E message \in Queries :
        /\ pc = "idle"
        /\ rag_system = "None"
        /\ entry' = "handle_message"
        /\ query' = message
        /\ Assign(handle_message_begin(message))
        /\ UNCHANGED <<retrieved, failure, responses, rag_system, request, http>>
        /\ UNCHANGED concurrent
        /\ UNCHANGED singletons

GenerateReturns ==
    \E text \in GenerateTexts :
        /\ pc = "generate"
        /\ Assign(handle_message_generated(generate_result(text), calls))
        /\ http' = app_chat_after(entry,
                       handle_message_generated(generate_result(text), calls), http)
        /\ responses' = Append(responses, generate_result(text))
        /\ UNCHANGED <<entry, query, retrieved, failure, rag_system, request>>
        /\ UNCHANGED concurrent
        /\ UNCHANGED singletons

GenerateRaises ==
    \E message \in ExceptionMessages :
        /\ pc = "generate"
        /\ Assign(handle_message_generate_failed(calls))
        /\ http' = app_chat_after(entry, handle_message_generate_failed(calls), http)
        /\ failure' = <<[service |-> "generate", after |-> Len(calls),
                         message |-> message]>>
        /\ UNCHANGED <<entry, query, retrieved, responses, rag_system, request>>
        /\ UNCHANGED concurrent
        /\ UNCHANGED singletons

\* _extract_citations called on its own
CallExtractCitations ==
    \E docs \in CitationInputs :
        /\ pc = "idle"
        /\ rag_system = "None"
        /\ entry' = "_extract_citations"
        /\ Assign(Local("returned", "", docs, <<>>, <<_extract_citations(docs)>>, <<>>))
        /\ UNCHANGED <<query, retrieved, failure, responses, rag_system, request,
                       http>>
        /\ UNCHANGED concurrent
        /\ UNCHANGED singletons

\* classify called on its own
ClassifyCalled(text) ==
    /\ pc = "idle"
    /\ rag_system = "None"
    /\ entry' = "classify"
    /\ query' = text
    /\ Assign(Local("returned", "", <<>>, <<>>, <<classify(text)>>, <<>>))
    /\ UNCHANGED <<retrieved, failure, responses, rag_system, request, http>>
    /\ UNCHANGED concurrent
    /\ UNCHANGED singletons

CallClassify ==
    \/ \E text \in ClassifyInputs : ClassifyCalled(text)
    \/ ClassifyCalled(None)

Next ==
    \/ Startup
    \/ CallChat
    \/ CallProcessQuery
    \/ RetrieverReturns
    \/ RetrieverRaises
    \/ LlmReturnsNoContext
    \/ LlmReturnsGrounded
    \/ LlmReturnsRetry
    \/ LlmRaises
    \/ CallAppChat
    \/ CallHandleMessage
    \/ GenerateReturns
    \/ GenerateRaises
    \/ CallExtractCitations
    \/ CallClassify

Spec == Init /\ [][Next]_vars

\* thread t calls process_query(q)
ConcurrentCall ==
    \E t \in Threads, q \in ConcurrentQueries :
        /\ Frame(threads, t).pc = "idle"
        /\ threads' = [threads EXCEPT ![t] = FrameOf(q, process_query_begin(q))]
        /\ given' = [given EXCEPT ![t] = [query |-> q, received |-> <<>>]]
        /\ UNCHANGED instance
        /\ UNCHANGED sequential
        /\ UNCHANGED singletons

\* the pending external call of thread t hands back item
Receive(t, item) ==
    /\ threads' = [threads EXCEPT ![t] = Deliver(Frame(threads, t), item)]
    /\ given' = [given EXCEPT ![t].received = Append(@, item)]
    /\ UNCHANGED instance
    /\ UNCHANGED sequential
    /\ UNCHANGED singletons

ConcurrentRetrieverReturns ==
    \E t \in Threads, invoked \in ConcurrentDocumentLists :
        /\ Frame(threads, t).pc = "retrieve"
        /\ Receive(t, DocumentsItem(invoked))

ConcurrentRetrieverRaises ==
    \E t \in Threads :
        /\ Frame(threads, t).pc = "retrieve"
        /\ Receive(t, RaiseItem)

ConcurrentLlmReturns ==
    \E t \in Threads, content \in ConcurrentLlmContents :
        /\ Frame(threads, t).pc \in {"llm_no_context", "llm_grounded", "llm_retry"}
        /\ Receive(t, ContentItem(content))

ConcurrentLlmRaises ==
    \E t \in Threads :
        /\ Frame(threads, t).pc \in {"llm_no_context", "llm_grounded", "llm_retry"}
        /\ Receive(t, RaiseItem)

NextConcurrent ==
    \/ ConcurrentCall
    \/ ConcurrentRetrieverReturns
    \/ ConcurrentRetrieverRaises
    \/ ConcurrentLlmReturns
    \/ ConcurrentLlmRaises

SpecConcurrent == Init /\ [][NextConcurrent]_vars

CallGetVectorStoreManager ==
    \E constructor_ok \in BOOLEAN :
        /\ Len(got) < MaxCalls
        /\ LET r == get_vector_store_manager(_vector_store_manager,
                                             constructed.VectorStoreManager,
                                             constructor_ok)
           IN  /\ _vector_store_manager' = r.global
               /\ constructed' = [constructed EXCEPT !.VectorStoreManager = r.constructed]
               /\ got' = Append(got, Got("get_vector_store_manager", <<>>, r.outcome))
        /\ UNCHANGED _rag_system
        /\ UNCHANGED sequential
        /\ UNCHANGED concurrent

\* get_rag_system called with a manager of the caller's own or with the one
\* that get_vector_store_manager returns
CallGetRagSystem ==
    \E constructor_ok \in BOOLEAN,
       manager \in OwnManagers \cup {_vector_store_manager[i] :
                                        i \in 1..Len(_vector_store_manager)} :
        /\ Len(got) < MaxCalls
        /\ LET r == get_rag_system(_rag_system, manager,
                                   constructed.LegalRAGSystem, constructor_ok)
           IN  /\ _rag_system' = r.global
               /\ constructed' = [constructed EXCEPT !.LegalRAGSystem = r.constructed]
               /\ got' = Append(got, Got("get_rag_system", <<manager>>, r.outcome))
        /\ UNCHANGED _vector_store_manager
        /\ UNCHANGED sequential
        /\ UNCHANGED concurrent

NextSingletons ==
    \/ CallGetVectorStoreManager
    \/ CallGetRagSystem
    \/ Startup

SpecSingletons == Init /\ [][NextSingletons]_vars


(***************************************************************************)
(* Properties                                                              *)
(***************************************************************************)
\* the calls made to one service, in order
CallsTo(service) == SelectSeq(calls, LAMBDA c : c.service = service)

\* the value returned by the call
Returned == result[1]

\* text matches an emergency pattern of the safety classifier
MatchesEmergency(text) ==
    LET lowered == Lower(text)
    IN  \E p \in EMERGENCY : SearchWord(lowered, p)

\* the lower-cased text contains an entry of ILLEGAL_KEYWORDS
ContainsIllegalKeyword(text) ==
    LET lowered == Lower(text)
    IN  \E keyword \in ILLEGAL_KEYWORDS : Contains(lowered, keyword)

\* C1: in handle_message, a message that classify labels emergency or
\* illegal never reaches fallback_generate; the call has returned
\* canned_response(label) with safety = label, and that text contains the
\* disclaimer sentence, and the number 112 for the emergency label.
C1_SafetyFirstNeverGenerates ==
    (entry = "handle_message" /\ classify(query) \in {"emergency", "illegal"}) =>
        /\ CallsTo("generate") = <<>>
        /\ pc = "returned"
        /\ Len(result) = 1
        /\ Returned.reply = canned_response(classify(query))
        /\ Returned.safety = classify(query)
        /\ Contains(Returned.reply, "This is general information, not legal advice.")
        /\ classify(query) = "emergency" => Contains(Returned.reply, "112")

\* C1 witness: handle_message has answered the message "kill myself"
C1_Witness ==
    /\ entry = "handle_message"
    /\ query = "kill myself"
    /\ pc = "returned"
    /\ Returned.safety = "emergency"

\* C2: a query that matches an emergency pattern makes process_query return
\* the emergency guidance (emergency services, 112) with no citations, and
\* no llm call is ever made for it.
C2_EmergencyGuidanceInRag ==
    (entry = "process_query" /\ MatchesEmergency(query)) =>
        /\ CallsTo("llm") = <<>>
        /\ pc = "returned" =>
            /\ Contains(Returned.answer, "contact emergency services")
            /\ Contains(Returned.answer, "112")
            /\ Returned.citations = <<>>

\* C3: a query whose lower-cased text contains an entry of ILLEGAL_KEYWORDS
\* makes process_query return at once the decline text followed by the
\* legal disclaimer, with no citations and has_context false, and neither
\* the retriever nor the llm is called.
C3_IllegalQueryDeclined ==
    (entry = "process_query" /\ ContainsIllegalKeyword(query)) =>
        /\ calls = <<>>
        /\ pc = "returned"
        /\ Len(result) = 1
        /\ Contains(Returned.answer, "cannot provide guidance on illegal activities")
        /\ Returned.answer =
              "I cannot provide guidance on illegal activities. If you have questions about legal compliance or your rights, I'm happy to help with that instead."
              \o "\n\n**Disclaimer:** This is general legal information, not legal advice."
        /\ Returned.citations = <<>>
        /\ Returned.has_context = FALSE

\* C3 witness: process_query has declined "How can I evade taxes?"
C3_Witness ==
    /\ entry = "process_query"
    /\ query = "How can I evade taxes?"
    /\ pc = "returned"
    /\ path = <<"SAFETY_BLOCKED">>

\* the sentence of the legal disclaimer
DisclaimerSentence == "This is general legal information, not legal advice."

\* process_query returned without taking the safety branch
ReturnedNotBlocked ==
    entry = "process_query" /\ pc = "returned" /\ path[1] # "SAFETY_BLOCKED"

\* retriever.invoke returned at least one passage
RetrievedSome == retrieved # <<>> /\ retrieved[1] # <<>>

\* retriever.invoke returned no passage
RetrievedNone == retrieved = << <<>> >>

\* C4: the answer process_query returns for a query that is not
\* safety-blocked contains the legal disclaimer exactly once, on every path
\* and whatever the llm output contains.
C4_DisclaimerExactlyOnce ==
    ReturnedNotBlocked =>
        CountOccurrences(Returned.answer, DisclaimerSentence) = 1

\* C5: when retrieval returned at least one passage, the result of
\* process_query carries the non-empty citation list that
\* _extract_citations derives from those passages, with or without retry.
C5_CitationsFromPassages ==
    (entry = "process_query" /\ pc = "returned" /\ RetrievedSome) =>
        /\ Returned.citations # <<>>
        /\ Returned.citations = _extract_citations(retrieved[1])

\* C6: in every result of process_query, has_context is true exactly when
\* the query was not safety-blocked and retrieval returned at least one
\* passage; it is true in particular after the insufficient-information
\* retry.
C6_HasContextIffRetrieved ==
    (entry = "process_query" /\ pc = "returned") =>
        /\ Returned.has_context <=> (path[1] # "SAFETY_BLOCKED" /\ RetrievedSome)
        /\ (\E i \in 1..Len(path) : path[i] = "INSUFFICIENT_RETRY") =>
               Returned.has_context

\* C6 witness: process_query returned after the retry
C6_Witness ==
    /\ entry = "process_query"
    /\ pc = "returned"
    /\ path = <<"GROUNDED_ATTEMPT", "INSUFFICIENT_RETRY", "DONE">>
    /\ Returned.has_context

\* C7: once retrieval has returned zero passages, process_query has made
\* exactly one llm call, with the generic prompt built from the raw query
\* only, and what it returns has has_context false and no citations.
C7_NoContextOneGenericCall ==
    (entry = "process_query" /\ RetrievedNone) =>
        /\ pc \in {"llm_no_context", "returned", "raised"}
        /\ CallsTo("llm") =
              <<[service |-> "llm",
                 input |-> "You are a helpful legal AI assistant. Answer the following question to the best of your ability:\n\nQuestion: "
                           \o query \o "\n\nProvide a clear and accurate answer."]>>
        /\ pc = "returned" =>
              /\ Returned.has_context = FALSE
              /\ Returned.citations = <<>>

\* C7 witness: process_query returned on the no-context path
C7_Witness ==
    /\ entry = "process_query"
    /\ query = "What is bail"
    /\ RetrievedNone
    /\ pc = "returned"

\* the prompt is the grounded template filled in
IsGroundedPrompt(prompt) == Contains(prompt, "**Retrieved Legal Context:**")

\* the prompt is the generic prompt
IsGenericPrompt(prompt) == Prefix(prompt, 37) = "You are a helpful legal AI assistant."

\* C8: process_query makes at most one retrieval call and at most two llm
\* calls; a non-blocked query that returns has made exactly one retrieval
\* call and one or two llm calls; the retrieval call comes before every llm
\* call and the grounded llm call before the generic fallback call (no llm
\* call at or after a generic one is a grounded one).
C8_CallCountsAndOrder ==
    entry = "process_query" =>
        /\ Len(CallsTo("retriever")) <= 1
        /\ Len(CallsTo("llm")) <= 2
        /\ ReturnedNotBlocked =>
              /\ Len(CallsTo("retriever")) = 1
              /\ Len(CallsTo("llm")) \in {1, 2}
        /\ \A i \in 1..Len(calls) : \A j \in 1..Len(calls) :
              /\ (calls[i].service = "retriever" /\ calls[j].service = "llm")
                    => i < j
              /\ (/\ j <= i
                  /\ calls[j].service = "llm" /\ IsGenericPrompt(calls[j].input)
                  /\ calls[i].service = "llm")
                    => ~IsGroundedPrompt(calls[i].input)

\* C8 witness: process_query returned after a grounded and a generic llm call
C8_Witness ==
    /\ ReturnedNotBlocked
    /\ Len(CallsTo("retriever")) = 1
    /\ Len(CallsTo("llm")) = 2
    /\ IsGroundedPrompt(CallsTo("llm")[1].input)
    /\ IsGenericPrompt(CallsTo("llm")[2].input)

\* C9: when an llm call of process_query raises, the call raises, no
\* further external call is made and nothing is returned; a failed
\* grounded call is not followed by the fallback call.
C9_LlmFailurePropagates ==
    (entry = "process_query" /\ failure # <<>> /\ failure[1].service = "llm") =>
        /\ pc = "raised"
        /\ result = <<>>
        /\ Len(calls) = failure[1].after
        /\ Len(CallsTo("llm")) = 1 =>
              path \in {<<"NO_CONTEXT">>, <<"GROUNDED_ATTEMPT">>}

\* C9 witness: the grounded llm call raised
C9_Witness ==
    /\ entry = "process_query"
    /\ failure # <<>>
    /\ failure[1].service = "llm"
    /\ path = <<"GROUNDED_ATTEMPT">>
    /\ pc = "raised"

\* C10: when the retriever raises, process_query raises, makes no llm call
\* and does not take the no-context path; the no-context path is taken only
\* after a retrieval that returned an empty list, and ends with
\* has_context false.
C10_RetrievalFailureIsNotNoContext ==
    entry = "process_query" =>
        /\ (failure # <<>> /\ failure[1].service = "retriever") =>
              /\ pc = "raised"
              /\ result = <<>>
              /\ CallsTo("llm") = <<>>
              /\ path = <<>>
        /\ (path # <<>> /\ path[1] = "NO_CONTEXT") =>
              /\ RetrievedNone
              /\ ~(failure # <<>> /\ failure[1].service = "retriever")
              /\ pc = "returned" => Returned.has_context = FALSE

\* C10 witness: the retriever raised
C10_Witness ==
    /\ entry = "process_query"
    /\ failure # <<>>
    /\ failure[1].service = "retriever"
    /\ pc = "raised"

\* _extract_citations, called on its own, has returned
CitationsReturned == entry = "_extract_citations" /\ pc = "returned"

\* the snippet that a passage text is cut to
SnippetOf(text) == IF Len(text) > 200 THEN SubSeq(text, 1, 200) \o "..." ELSE text

\* the pair (source, first 50 characters of the snippet) of a passage
KeyOfPassage(doc) ==
    <<IF "source" \in DOMAIN doc.metadata THEN doc.metadata.source
      ELSE "Unknown Source",
      Prefix(SnippetOf(doc.page_content), 50)>>

\* the pair (source, first 50 characters of the snippet) of a citation
KeyOfCitation(c) == <<c.source, Prefix(c.snippet, 50)>>

\* the index of the first passage that has the key
FirstWithKey(docs, key) ==
    CHOOSE i \in 1..Len(docs) :
        /\ KeyOfPassage(docs[i]) = key
        /\ \A j \in 1..(i - 1) : KeyOfPassage(docs[j]) # key

\* C11: _extract_citations deduplicates by (source, first 50 characters of
\* the snippet): the passages that share one key produce exactly one
\* citation, built from the first of them, and the citations come in the
\* order in which their keys first occur among the passages.
C11_OneCitationPerKey ==
    CitationsReturned =>
        LET docs == documents
            cits == Returned
        IN  /\ \A i \in 1..Len(docs) :
                  LET key == KeyOfPassage(docs[i])
                      first == docs[FirstWithKey(docs, key)]
                      mine == {k \in 1..Len(cits) : KeyOfCitation(cits[k]) = key}
                  IN  /\ Cardinality(mine) = 1
                      /\ \A k \in mine :
                            /\ cits[k].snippet = SnippetOf(first.page_content)
                            /\ cits[k].source_title =
                                  (IF "title" \in DOMAIN first.metadata
                                   THEN first.metadata.title
                                   ELSE cits[k].source)
            /\ \A k \in 1..Len(cits) : \A l \in 1..Len(cits) :
                  (k < l) =>
                      /\ \E i \in 1..Len(docs) :
                            KeyOfPassage(docs[i]) = KeyOfCitation(cits[k])
                      /\ \E i \in 1..Len(docs) :
                            KeyOfPassage(docs[i]) = KeyOfCitation(cits[l])
                      /\ FirstWithKey(docs, KeyOfCitation(cits[k]))
                            < FirstWithKey(docs, KeyOfCitation(cits[l]))

\* C12: every citation of _extract_citations has a snippet of at most 200
\* characters, whatever the length of the passage text.
C12_SnippetAtMost200 ==
    CitationsReturned =>
        \A k \in 1..Len(Returned) : Len(Returned[k].snippet) <= 200

\* C12 as amended: every citation of _extract_citations has a snippet of at
\* most 203 characters: at most 200 characters of the passage text and,
\* when the text was cut, the 3 characters of the ellipsis.
C12_SnippetAtMost203 ==
    CitationsReturned =>
        \A k \in 1..Len(Returned) :
            /\ Len(Returned[k].snippet) <= 203
            /\ Len(Returned[k].snippet) > 200 =>
                  SubSeq(Returned[k].snippet, 201, Len(Returned[k].snippet)) = "..."

\* C12 witness: a citation built from a passage of more than 200 characters
C12_Witness ==
    /\ CitationsReturned
    /\ Len(documents) = 1
    /\ Len(documents[1].page_content) > 201
    /\ Len(Returned[1].snippet) = 203

\* C13: the snippet of a citation is the first 200 characters of the
\* passage text followed by "..." when the text is longer than 200
\* characters, and the text unchanged when it has 200 characters or fewer.
C13_SnippetTruncation ==
    (CitationsReturned /\ Len(documents) >= 1) =>
        LET text == documents[1].page_content
            snippet == Returned[1].snippet
        IN  /\ Len(text) <= 200 => snippet = text
            /\ Len(text) > 200 =>
                  /\ Len(snippet) = 203
                  /\ SubSeq(snippet, 1, 200) = SubSeq(text, 1, 200)
                  /\ SubSeq(snippet, 201, 203) = "..."

\* C13 witness: a citation built from a passage of exactly 200 characters
C13_Witness ==
    /\ CitationsReturned
    /\ Len(documents) = 1
    /\ Len(documents[1].page_content) = 200
    /\ Returned[1].snippet = documents[1].page_content

\* text matches an illegal pattern of the safety classifier
MatchesIllegal(text) ==
    LET lowered == Lower(text)
    IN  \/ \E word \in {"forge", "bribe", "blackmail", "extort", "threaten"} :
              SearchWord(lowered, word)
        \/ SearchWordThenAny(lowered, "fake", {"doc", "document", "evidence"})

\* C14: classify returns one of its three labels for every argument and
\* calls nothing: emergency when an emergency pattern matches the
\* lower-cased text, also when an illegal pattern matches too; otherwise
\* illegal when an illegal pattern matches; otherwise ok; the empty string
\* and None give ok.
C14_ClassifyPriority ==
    entry = "classify" =>
        /\ pc = "returned"
        /\ calls = <<>>
        /\ Len(result) = 1
        /\ Returned \in {"emergency", "illegal", "ok"}
        /\ IF Len(query) = 0 THEN Returned = "ok"
           ELSE /\ (Returned = "emergency") <=> MatchesEmergency(query)
                /\ (Returned = "illegal") <=>
                      (~MatchesEmergency(query) /\ MatchesIllegal(query))

\* C14 witness: classify has labelled a text that matches an emergency
\* pattern and an illegal pattern
C14_Witness ==
    /\ entry = "classify"
    /\ pc = "returned"
    /\ Len(query) > 0
    /\ MatchesEmergency(query)
    /\ MatchesIllegal(query)
    /\ Returned = "emergency"

\* text contains the disclaimer phrase, in any letter case
HasDisclaimerPhrase(text) == Contains(Lower(text), "not legal advice")

\* handle_message was called with a message that matches no emergency and
\* no illegal pattern
OkMessage ==
    /\ entry = "handle_message"
    /\ ~MatchesEmergency(query)
    /\ ~MatchesIllegal(query)

\* C17: for a message classified ok, handle_message makes exactly one call,
\* the call to the model; the reply it returns contains "not legal advice"
\* in some letter case; it is the output of the model unchanged when that
\* output already contains the phrase, and otherwise the output with the
\* disclaimer sentence put in front of it once.
C17_OkReplyCarriesDisclaimer ==
    OkMessage =>
        /\ Len(calls) = 1
        /\ Len(CallsTo("generate")) = 1
        /\ pc = "returned" =>
              /\ Len(responses) = 1
              /\ Returned.safety = "ok"
              /\ HasDisclaimerPhrase(Returned.reply)
              /\ IF HasDisclaimerPhrase(responses[1])
                 THEN Returned.reply = responses[1]
                 ELSE /\ Returned.reply =
                            "This is general information, not legal advice.\n\n"
                                \o responses[1]
                      /\ CountOccurrences(Lower(Returned.reply),
                                          "not legal advice") = 1

\* C17 witness: handle_message has returned the output of the model
\* unchanged because it carries the phrase in upper case, and has returned
\* another output with the sentence in front
C17_Witness ==
    /\ OkMessage
    /\ pc = "returned"
    /\ HasDisclaimerPhrase(responses[1])
    /\ ~Contains(responses[1], "not legal advice")
    /\ Returned.reply = responses[1]

\* text holds one of the two marker phrases, in any letter case
HasMarker(text) ==
    LET lowered == Lower(text)
    IN  \/ Contains(lowered, "don't have enough")
        \/ Contains(lowered, "insufficient information")

\* the texts the model can return that hold a marker phrase
MarkedContents == {content \in LlmContents : HasMarker(content)}

\* C20: the quality retry of process_query is one-shot. After a grounded
\* call (the first llm call of a query for which passages were retrieved)
\* has returned, a second llm call is made iff the grounded output holds a
\* marker phrase in some letter case, and that call carries the generic
\* prompt; a query with no passage makes no second call; once the second
\* call has returned, process_query has returned its output plus the
\* disclaimer and reached DONE, whatever that output holds; there are never
\* more than two llm calls.
C20_RetryIsOneShot ==
    entry = "process_query" =>
        /\ Len(CallsTo("llm")) <= 2
        /\ Len(responses) <= Len(CallsTo("llm"))
        /\ (RetrievedSome /\ Len(responses) >= 1) =>
              ((Len(CallsTo("llm")) = 2) <=> responses[1] \in MarkedContents)
        /\ ~RetrievedSome => Len(CallsTo("llm")) <= 1
        /\ Len(CallsTo("llm")) = 2 => IsGenericPrompt(CallsTo("llm")[2].input)
        /\ Len(responses) = 2 =>
              /\ pc = "returned"
              /\ path[Len(path)] = "DONE"
              /\ Returned.answer = responses[2] \o LEGAL_DISCLAIMER

\* C20 witness: the grounded output held a marker in upper case, the
\* fallback output holds a marker too, and process_query has returned it
C20_Witness ==
    /\ entry = "process_query"
    /\ pc = "returned"
    /\ Len(responses) = 2
    /\ responses[1] \in MarkedContents
    /\ ~Contains(responses[1], "insufficient information")
    /\ ~Contains(responses[1], "don't have enough")
    /\ responses[2] \in MarkedContents
    /\ Returned.answer = responses[2] \o LEGAL_DISCLAIMER

\* the block of the i-th passage: its label, then its text
BlockOf(i, doc) ==
    "[Source " \o ToString(i) \o ": "
        \o (IF "source" \in DOMAIN doc.metadata THEN doc.metadata.source
                                                ELSE "Unknown")
        \o "]\n" \o doc.page_content \o "\n"

\* the position in the context at which the block of the i-th passage starts
RECURSIVE BlockStart(_, _)
BlockStart(docs, i) ==
    IF i = 1 THEN 1
    ELSE BlockStart(docs, i - 1) + Len(BlockOf(i - 1, docs[i - 1])) + 5

\* C18: once the retriever has returned passages 1..n, the context of
\* process_query is made of n blocks in retrieval order and nothing else:
\* the block of passage i is "[Source i: <source>]", a line break, the text
\* of the passage and a line break, consecutive blocks are separated by the
\* line "---", and the document list is the retrieved list; for n = 0 the
\* context is the empty string and the document list is empty.
C18_ContextRendering ==
    (entry = "process_query" /\ retrieved # <<>>) =>
        LET docs == retrieved[1]
            n == Len(docs)
        IN  IF n = 0
            THEN context = "" /\ documents = <<>>
            ELSE /\ documents = docs
                 /\ \A i \in 1..n :
                       /\ OccursAt(context, BlockOf(i, docs[i]), BlockStart(docs, i))
                       /\ i < n =>
                             OccursAt(context, "\n---\n",
                                      BlockStart(docs, i) + Len(BlockOf(i, docs[i])))
                 /\ Len(context) =
                       BlockStart(docs, n) + Len(BlockOf(n, docs[n])) - 1

\* C18 witness: two passages were retrieved, the second without a source,
\* and the context holds both blocks around the separator
C18_Witness ==
    /\ entry = "process_query"
    /\ retrieved # <<>>
    /\ Len(retrieved[1]) = 2
    /\ "source" \in DOMAIN retrieved[1][1].metadata
    /\ "source" \notin DOMAIN retrieved[1][2].metadata
    /\ Prefix(context, 28) = "[Source 1: constitution.pdf]"
    /\ Contains(context, "\n\n---\n[Source 2: Unknown]\n")

\* /chat has handed the query to process_query
PipelineEntered == entry = "chat" /\ pc # "responded"

\* C15: every query that /chat passes to process_query has, once trimmed,
\* between 3 and 1000 characters (so it is neither empty nor made of
\* whitespace only), and every request whose trimmed query has fewer than 3
\* or more than 1000 characters is answered by the validation error without
\* entering the pipeline.
C15_QueryLengthAfterTrimming ==
    entry = "chat" =>
        /\ PipelineEntered =>
              /\ Len(Strip(query)) >= 3
              /\ Len(Strip(query)) <= 1000
        /\ (Len(Strip(request)) < 3 \/ Len(Strip(request)) > 1000) =>
              /\ ~PipelineEntered
              /\ http = <<validation_error>>

\* C16: when process_query raises (the retriever or an llm call failed),
\* /chat answers with status 500 and the one fixed detail text, whatever
\* the text of the exception, and so not with a 200 answer.
C16_FailureGivesGeneric500 ==
    (entry = "chat" /\ failure # <<>>) =>
        /\ pc = "raised"
        /\ http = <<[status |-> 500,
                     detail |-> "An error occurred while processing your query. Please try again."]>>

\* C16 witness: an llm call of a query posted to /chat raised after the
\* retrieval, and /chat has answered with status 500
C16_Witness ==
    /\ entry = "chat"
    /\ failure # <<>>
    /\ failure[1].service = "llm"
    /\ failure[1].message = "429 quota exceeded"
    /\ RetrievedSome
    /\ http # <<>>
    /\ http[1].status = 500

\* the frame that a call of process_query(q) made on its own has reached
\* once its external calls have handed back the first n items of received
RECURSIVE SoloAfter(_, _, _)
SoloAfter(q, received, n) ==
    IF n = 0 THEN FrameOf(q, process_query_begin(q))
    ELSE Deliver(SoloAfter(q, received, n - 1), received[n])

\* thread t has called process_query
Called(t) == given[t].query # ""

BlockedBeforeGeneration ==
    /\ pc = "returned"
    /\ path = <<"SAFETY_BLOCKED">>
    /\ CallsTo("llm") = <<>>

\* C21: process_query blocks a query before generation (it returns the
\* canned answer of its safety branch without an llm call) if and only if
\* classify of src/safety.py gives the same query a label other than ok.
C21_SafetyChecksAgree ==
    entry = "process_query" =>
        (BlockedBeforeGeneration <=> classify(query) # "ok")

\* the (source, first 50 characters of the snippet) pairs of the passages
KeysOfPassages(docs) == {KeyOfPassage(docs[i]) : i \in 1..Len(docs)}

\* C22: _extract_citations never collapses passages whose (source, first 50
\* characters of the snippet) pairs differ: every pair among the passages
\* has a citation of its own, and the number of citations is the number of
\* distinct pairs.
C22_DistinctKeysDistinctCitations ==
    CitationsReturned =>
        /\ Len(Returned) = Cardinality(KeysOfPassages(documents))
        /\ \A key \in KeysOfPassages(documents) :
              \E k \in 1..Len(Returned) : KeyOfCitation(Returned[k]) = key

\* the request posted to /chat of src/app.py carries no message, an empty
\* one or one of whitespace only
NoMessage ==
    /\ entry = "app.chat"
    /\ (request.message = <<>> \/ Len(Strip(request.message[1])) = 0)

\* C23: for every request to /chat of src/app.py, JSON or plain text, whose
\* message is missing, empty or made of whitespace only, the answer is
\* status 400 with the Empty message error, and handle_message is not
\* entered: classify is not called and no call goes to the model.
C23_EmptyMessageRejected ==
    NoMessage =>
        /\ pc = "responded"
        /\ calls = <<>>
        /\ http = <<[status |-> 400,
                     error |-> "Empty message. Send JSON {'message': '...'} or plain text body."]>>

\* the calls of function that returned, in order
ReturnedBy(function) ==
    SelectSeq(got, LAMBDA g : g.function = function /\ g.outcome # <<>>)

\* C24: over any sequence of calls, get_rag_system constructs at most one
\* LegalRAGSystem and get_vector_store_manager at most one
\* VectorStoreManager; all the calls of one function that return give the
\* same object; and the LegalRAGSystem returned is bound to the manager
\* given to the first call that returned, whatever the manager given later.
C24_Singletons ==
    /\ constructed.LegalRAGSystem <= 1
    /\ constructed.VectorStoreManager <= 1
    /\ \A function \in {"get_rag_system", "get_vector_store_manager"} :
          LET returned == ReturnedBy(function)
          IN  \A i \in 1..Len(returned) : returned[i].outcome = returned[1].outcome
    /\ LET returned == ReturnedBy("get_rag_system")
       IN  \A i \in 1..Len(returned) :
               returned[i].outcome[1].vector_store_manager =
                   returned[1].argument[1]

\* C24 witness: get_rag_system has returned twice, the second time for
\* another manager than the first, and get_vector_store_manager has
\* returned twice
C24_Witness ==
    /\ Len(ReturnedBy("get_rag_system")) = 2
    /\ ReturnedBy("get_rag_system")[1].argument #
           ReturnedBy("get_rag_system")[2].argument
    /\ ReturnedBy("get_rag_system")[1].outcome =
           ReturnedBy("get_rag_system")[2].outcome
    /\ Len(ReturnedBy("get_vector_store_manager")) = 2
    /\ constructed = [VectorStoreManager |-> 1, LegalRAGSystem |-> 1]

====
